---- MODULE Spec2Model ----
(***************************************************************************)
(* Model of speechbrain/utils/io.py: a dispatcher that classifies a path   *)
(* string as local or remote by its scheme prefix and forwards each of     *)
(* seven file operations to the local OS calls or to the remote            *)
(* object-store client (Pathy).                                            *)
(*                                                                         *)
(* A Python string is a sequence of one-character strings.  The two        *)
(* backends are stores the module does not own: the local file system and  *)
(* the object store.  Every call records the backend calls it made, with   *)
(* the arguments handed over and the outcome the backend gave back.        *)
(***************************************************************************)
EXTENDS Integers, Sequences, FiniteSets, TLC

VARIABLES
    local,      \* local file system: file path -> size in bytes, or Absent
    remote,     \* object store: object uri -> size in bytes, or Absent
    handle,     \* the file object the last open_remote returned, while open
    op,         \* name of the call that has just returned ("none": no call)
    args,       \* the arguments of that call
    ret,        \* what that call returned or raised
    calls,      \* the backend calls that call made, in order
    lastEvent,  \* per stored path: was it last created or deleted
    wrote       \* the last completed open-write-close sequence

vars == <<local, remote, handle, op, args, ret, calls, lastEvent, wrote>>

----------------------------------------------------------------------------
\* Bounds

\* Largest file size, and most bytes written through one handle.
MaxBytes == 2
\* Longest tail appended to a scheme-like prefix when classifying.
MaxTail == 2

----------------------------------------------------------------------------
\* Strings

GS == <<"g", "s", ":", "/", "/">>
HDFS == <<"h", "d", "f", "s", ":", "/", "/">>
STAR == "*"

\* str.startswith(prefix)
StartsWith(s, prefix) ==
    /\ Len(s) >= Len(prefix)
    /\ \A i \in 1..Len(prefix) : s[i] = prefix[i]

\* All sequences over alphabet A of length at most n.
SeqsUpTo(A, n) == UNION {[1..k -> A] : k \in 0..n}

\* The prefixes of a string, the empty and the whole string included.
PrefixesOf(s) == {SubSeq(s, 1, k) : k \in 0..Len(s)}

----------------------------------------------------------------------------
\* is_remote_path

is_remote_path_gs_only(path) == StartsWith(path, GS)

is_remote_path(path) == StartsWith(path, GS) \/ StartsWith(path, HDFS)

----------------------------------------------------------------------------
\* The two stores

Absent == -1

D == <<"d">>
D_AT == <<"d", "/", "a", "t">>
D_BT == <<"d", "/", "b", "t">>
D_CL == <<"d", "/", "c", "l">>
X == <<"x", "/", "y">>
GS_B == GS \o <<"b">>
GS_AT == GS \o <<"b", "/", "a", "t">>
GS_BT == GS \o <<"b", "/", "b", "t">>
GS_CL == GS \o <<"b", "/", "c", "l">>
GS_X == GS \o <<"n", "/", "x">>
HDFS_AT == HDFS \o <<"h", "/", "a", "t">>

\* Local directories (they exist throughout) and the files that may exist.
LocalDirs == {D}
LocalOrder == <<D_AT, D_BT, D_CL>>
LocalFiles == {LocalOrder[i] : i \in 1..Len(LocalOrder)}

\* The objects that may exist in the object store.
RemoteOrder == <<GS_AT, GS_BT, GS_CL, HDFS_AT>>
RemoteObjs == {RemoteOrder[i] : i \in 1..Len(RemoteOrder)}

Sizes == 0..MaxBytes

\* The last path component and what precedes it.
RECURSIVE LastSlash(_, _)
LastSlash(s, i) ==
    IF i = 0 THEN 0 ELSE IF s[i] = "/" THEN i ELSE LastSlash(s, i - 1)

BaseName(s) == SubSeq(s, LastSlash(s, Len(s)) + 1, Len(s))
DirName(s) ==
    LET i == LastSlash(s, Len(s)) IN IF i = 0 THEN <<>> ELSE SubSeq(s, 1, i - 1)

\* What a call returns or raises.
Ok(v) == [kind |-> "ok", err |-> "", val |-> v]
Raise(e) == [kind |-> "raise", err |-> e, val |-> "None"]
NoRet == [kind |-> "none", err |-> "", val |-> "None"]

\* A backend call as recorded: which backend, which function, the positional
\* path, the keyword arguments handed over, and the outcome.
NoKw == [none |-> TRUE]
Call(backend, fn, path, kw, out) ==
    [backend |-> backend, fn |-> fn, path |-> path, kw |-> kw, out |-> out]

Faults == {"none", "BackendError"}

----------------------------------------------------------------------------
\* Local OS calls

\* os.path.exists: never raises.
OsPathExists(path) ==
    path \in LocalDirs \/ (path \in LocalFiles /\ local[path] # Absent)

\* os.path.isdir: never raises.
OsPathIsdir(path) == path \in LocalDirs

\* os.listdir: the entry names of a directory; raises for anything else.
OsListdir(path, fault) ==
    IF fault # "none" THEN Raise(fault)
    ELSE IF path \in LocalDirs
    THEN Ok([i \in 1..Len(SelectSeq(LocalOrder,
                LAMBDA k : DirName(k) = path /\ local[k] # Absent)) |->
             BaseName(SelectSeq(LocalOrder,
                LAMBDA k : DirName(k) = path /\ local[k] # Absent)[i])])
    ELSE IF OsPathExists(path) THEN Raise("BackendError")
    ELSE Raise("NotFoundError")

\* os.path.getsize (a directory has the size the OS gives it, here 0)
OsGetsize(path, fault) ==
    IF fault # "none" THEN Raise(fault)
    ELSE IF path \in LocalDirs THEN Ok(0)
    ELSE IF OsPathExists(path) THEN Ok(local[path])
    ELSE Raise("NotFoundError")

----------------------------------------------------------------------------
\* Remote object-store client calls (Pathy)

RemoteHas(path) == path \in RemoteObjs /\ remote[path] # Absent

\* A "directory" is a prefix some object lies under.
RemoteIsDir(path) ==
    \E k \in RemoteObjs : remote[k] # Absent /\ StartsWith(k, path \o <<"/">>)

PathyExists(path, fault) ==
    IF fault # "none" THEN Raise(fault)
    ELSE Ok(RemoteHas(path) \/ RemoteIsDir(path))

PathyIsDir(path, fault) ==
    IF fault # "none" THEN Raise(fault) ELSE Ok(RemoteIsDir(path))

\* Pathy(path).stat(): a record with the object's size.  A path outside the
\* object store's namespace (a local path) names no object.
PathyStat(path, fault) ==
    IF fault # "none" THEN Raise(fault)
    ELSE IF RemoteHas(path) THEN Ok([size |-> remote[path]])
    ELSE Raise("NotFoundError")

\* Pathy(path).ls(): one blob per object directly under the prefix.  For a
\* prefix no object lies under, the store reports either an empty listing or
\* an error (onMissing), as the client in use defines.
PathyLs(path, fault, onMissing) ==
    IF fault # "none" THEN Raise(fault)
    ELSE IF ~RemoteIsDir(path) /\ onMissing = "raise" THEN Raise("NotFoundError")
    ELSE LET under == SelectSeq(RemoteOrder,
                LAMBDA k : DirName(k) = path /\ remote[k] # Absent)
         IN Ok([i \in 1..Len(under) |->
                  [name |-> BaseName(under[i]), size |-> remote[under[i]]]])

----------------------------------------------------------------------------
\* The module's query functions.  Each yields what it returns or raises and
\* the backend calls it made.

Result(r, cs) == [ret |-> r, calls |-> cs]

path_exists_remote_local_only(path, fault) ==
    LET out == Ok(OsPathExists(path))
    IN Result(out, <<Call("local", "exists", path, NoKw, out)>>)

path_exists_remote(path, fault) ==
    IF is_remote_path(path)
    THEN LET out == PathyExists(path, fault)
         IN Result(out, <<Call("remote", "exists", path, NoKw, out)>>)
    ELSE LET out == Ok(OsPathExists(path))
         IN Result(out, <<Call("local", "exists", path, NoKw, out)>>)

isdir_remote_both(path, fault) ==
    LET l == Ok(OsPathIsdir(path))
        r == PathyIsDir(path, fault)
    IN IF l.val
       THEN Result(l, <<Call("local", "isdir", path, NoKw, l)>>)
       ELSE Result(r, <<Call("local", "isdir", path, NoKw, l),
                        Call("remote", "is_dir", path, NoKw, r)>>)

isdir_remote(path, fault) ==
    IF is_remote_path(path)
    THEN LET out == PathyIsDir(path, fault)
         IN Result(out, <<Call("remote", "is_dir", path, NoKw, out)>>)
    ELSE LET out == Ok(OsPathIsdir(path))
         IN Result(out, <<Call("local", "isdir", path, NoKw, out)>>)

listdir_remote_swallow(path, fault, onMissing) ==
    LET out == IF is_remote_path(path) THEN PathyLs(path, fault, onMissing)
               ELSE OsListdir(path, fault)
        names == IF is_remote_path(path) /\ out.kind = "ok"
                 THEN Ok([i \in 1..Len(out.val) |-> out.val[i].name])
                 ELSE out
    IN Result(IF out.kind = "ok" THEN names ELSE Ok(<<>>),
              <<Call(IF is_remote_path(path) THEN "remote" ELSE "local",
                     IF is_remote_path(path) THEN "ls" ELSE "listdir",
                     path, NoKw, out)>>)

listdir_remote(path, fault, onMissing) ==
    IF is_remote_path(path)
    THEN LET out == PathyLs(path, fault, onMissing)
         IN Result(IF out.kind = "ok"
                   THEN Ok([i \in 1..Len(out.val) |-> out.val[i].name])
                   ELSE out,
                   <<Call("remote", "ls", path, NoKw, out)>>)
    ELSE LET out == OsListdir(path, fault)
         IN Result(out, <<Call("local", "listdir", path, NoKw, out)>>)

stat_remote(path, fault) ==
    LET out == PathyStat(path, fault)
    IN Result(out, <<Call("remote", "stat", path, NoKw, out)>>)

size_remote_local_only(path, fault) ==
    LET out == OsGetsize(path, fault)
    IN Result(out, <<Call("local", "getsize", path, NoKw, out)>>)

size_remote(path, fault) ==
    IF is_remote_path(path)
    THEN LET out == PathyStat(path, fault)
         IN Result(IF out.kind = "ok" THEN Ok(out.val.size) ELSE out,
                   <<Call("remote", "stat", path, NoKw, out)>>)
    ELSE LET out == OsGetsize(path, fault)
         IN Result(out, <<Call("local", "getsize", path, NoKw, out)>>)

----------------------------------------------------------------------------
\* open_remote and the file object it returns

ReadModes == {"r", "rb"}
WriteModes == {"w", "wb", "w+"}
AppendModes == {"a"}
Modes == ReadModes \cup WriteModes \cup AppendModes
\* The modes the object-store client opens.
RemoteModes == {"r", "rb", "w", "wb"}

NoHandle ==
    [open |-> FALSE, backend |-> "", path |-> <<>>, mode |-> "",
     base |-> 0, written |-> 0]
Handle(backend, path, mode, base) ==
    [open |-> TRUE, backend |-> backend, path |-> path, mode |-> mode,
     base |-> base, written |-> 0]

\* What an open yields: the outcome, the file object, and the store after it.
Opened(out, h, store) == [out |-> out, handle |-> h, store |-> store]

\* The built-in open(): a write mode creates or truncates the file at once,
\* the append mode creates it when missing and keeps what is there.
OsOpen(path, mode, buffering, encoding, closefd, fault) ==
    IF fault # "none" THEN Opened(Raise(fault), NoHandle, local)
    ELSE IF \/ ~closefd
            \/ mode \in {"rb", "wb"} /\ encoding # "None"
            \/ mode \notin {"rb", "wb"} /\ buffering = 0
    THEN Opened(Raise("BackendError"), NoHandle, local)
    ELSE IF path \in LocalDirs
    THEN Opened(Raise("BackendError"), NoHandle, local)
    ELSE IF path \notin LocalFiles
    THEN Opened(Raise("NotFoundError"), NoHandle, local)
    ELSE IF mode \in ReadModes
    THEN IF local[path] = Absent
         THEN Opened(Raise("NotFoundError"), NoHandle, local)
         ELSE Opened(Ok([backend |-> "local", path |-> path, mode |-> mode]),
                     Handle("local", path, mode, local[path]), local)
    ELSE IF mode \in WriteModes
    THEN Opened(Ok([backend |-> "local", path |-> path, mode |-> mode]),
                Handle("local", path, mode, 0), [local EXCEPT ![path] = 0])
    ELSE LET old == IF local[path] = Absent THEN 0 ELSE local[path]
         IN Opened(Ok([backend |-> "local", path |-> path, mode |-> mode]),
                   Handle("local", path, mode, old),
                   [local EXCEPT ![path] = old])

\* Pathy(path).open(): the object is written when the file object is closed.
PathyOpen(path, mode, encoding, fault) ==
    IF fault # "none" THEN Opened(Raise(fault), NoHandle, remote)
    ELSE IF mode \notin RemoteModes
    THEN Opened(Raise("UnsupportedModeError"), NoHandle, remote)
    ELSE IF mode \in {"rb", "wb"} /\ encoding # "None"
    THEN Opened(Raise("BackendError"), NoHandle, remote)
    ELSE IF path \notin RemoteObjs
    THEN Opened(Raise("BackendError"), NoHandle, remote)
    ELSE IF mode \in ReadModes /\ remote[path] = Absent
    THEN Opened(Raise("NotFoundError"), NoHandle, remote)
    ELSE Opened(Ok([backend |-> "remote", path |-> path, mode |-> mode]),
                Handle("remote", path, mode, 0), remote)

DefaultBufferSize == 8192

\* What open_remote yields: the result and the backend call, the file object,
\* and both stores after the call.
OpenResult(r, cs, h, l, rm) ==
    [ret |-> r, calls |-> cs, handle |-> h, local |-> l, remote |-> rm]

open_remote(path, mode, buffering, encoding, newline, closefd, opener, fault) ==
    IF is_remote_path(path)
    THEN LET o == PathyOpen(path, mode, encoding, fault)
             kw == [mode |-> mode,
                    buffering |-> IF buffering = -1 THEN DefaultBufferSize
                                  ELSE buffering,
                    encoding |-> encoding,
                    newline |-> newline]
         IN OpenResult(o.out, <<Call("remote", "open", path, kw, o.out)>>,
                       o.handle, local, o.store)
    ELSE LET o == OsOpen(path, mode, buffering, encoding, closefd, fault)
             kw == [mode |-> mode,
                    buffering |-> buffering,
                    encoding |-> encoding,
                    newline |-> newline,
                    closefd |-> closefd,
                    opener |-> opener]
         IN OpenResult(o.out, <<Call("local", "open", path, kw, o.out)>>,
                       o.handle, o.store, remote)

----------------------------------------------------------------------------
\* glob_remote

\* Index of the first occurrence of c in s at or after i; 0 when there is none.
RECURSIVE Find(_, _, _)
Find(s, c, i) ==
    IF i > Len(s) THEN 0 ELSE IF s[i] = c THEN i ELSE Find(s, c, i + 1)

\* str.split(sep, 1): one split at the first separator, if any.
Split1(s, sep) ==
    LET i == Find(s, sep, 1)
    IN IF i = 0 THEN <<s>>
       ELSE <<SubSeq(s, 1, i - 1), SubSeq(s, i + 1, Len(s))>>

\* Shell-style match of a name against a pattern: '*' stands for any run of
\* characters within one path component.
RECURSIVE GlobMatch(_, _)
GlobMatch(pat, s) ==
    IF pat = <<>> THEN s = <<>>
    ELSE IF Head(pat) = STAR
    THEN \/ GlobMatch(Tail(pat), s)
         \/ s # <<>> /\ Head(s) # "/" /\ GlobMatch(pat, Tail(s))
    ELSE s # <<>> /\ Head(s) = Head(pat) /\ GlobMatch(Tail(pat), Tail(s))

\* Python values a glob yields: a str, a Pathy object (the scheme and what
\* follows "://"), a list, and a lazy iterator whose consumption gives the
\* items or raises.
PyStr(s) == [type |-> "str", chars |-> s]
SchemeEnd(uri) == IF StartsWith(uri, GS) THEN Len(GS) ELSE Len(HDFS)
PathyOf(uri) ==
    [type |-> "Pathy",
     scheme |-> SubSeq(uri, 1, SchemeEnd(uri) - 3),
     key |-> SubSeq(uri, SchemeEnd(uri) + 1, Len(uri))]
PyList(items) == [type |-> "list", items |-> items]
Generator(out) == [type |-> "generator", out |-> out]

\* str(x) of a Pathy object
Str(x) == PyStr(x.scheme \o <<":", "/", "/">> \o x.key)

\* glob.glob: the existing local paths the whole pattern matches, as a list
\* of str; never raises.
OsGlob(pattern) ==
    LET all == <<D>> \o LocalOrder
        hits == SelectSeq(all, LAMBDA k :
                    OsPathExists(k) /\ GlobMatch(pattern, k))
    IN PyList([i \in 1..Len(hits) |-> PyStr(hits[i])])

\* Pathy drops the slashes that end a path.
RECURSIVE StripSlash(_)
StripSlash(uri) ==
    IF Len(uri) > SchemeEnd(uri) /\ uri[Len(uri)] = "/"
    THEN StripSlash(SubSeq(uri, 1, Len(uri) - 1))
    ELSE uri

\* Consuming Pathy(base).glob(pat): the objects under base whose path
\* relative to base the pattern matches, as Pathy objects.
PathyGlob(base, pat, fault) ==
    IF fault # "none" THEN Raise(fault)
    ELSE LET root == StripSlash(base) \o <<"/">>
             hits == SelectSeq(RemoteOrder, LAMBDA k :
                        /\ remote[k] # Absent
                        /\ StartsWith(k, root)
                        /\ GlobMatch(pat, SubSeq(k, Len(root) + 1, Len(k))))
         IN Ok([i \in 1..Len(hits) |-> PathyOf(hits[i])])

\* pattern.split('*', 1)
SplitPattern_partition(pattern) ==
    LET i == Find(pattern, STAR, 1)
    IN IF i = 0 THEN <<pattern, <<>>>>
       ELSE <<SubSeq(pattern, 1, i - 1), SubSeq(pattern, i + 1, Len(pattern))>>

SplitPattern_last(pattern) ==
    LET i == CHOOSE j \in 0..Len(pattern) :
                /\ j = 0 \/ pattern[j] = STAR
                /\ \A k \in (j + 1)..Len(pattern) : pattern[k] # STAR
    IN IF i = 0 THEN <<pattern>>
       ELSE <<SubSeq(pattern, 1, i - 1), SubSeq(pattern, i + 1, Len(pattern))>>

SplitPattern(pattern) == Split1(pattern, STAR)

\* What is returned for the remote matches: a list of str when str_cast, the
\* backend's iterator as it is otherwise.
CastPaths_always(out, str_cast) ==
    IF out.kind = "ok"
    THEN Ok(PyList([i \in 1..Len(out.val) |-> Str(out.val[i])]))
    ELSE out

CastPaths(out, str_cast) ==
    IF str_cast
    THEN IF out.kind = "ok"
         THEN Ok(PyList([i \in 1..Len(out.val) |-> Str(out.val[i])]))
         ELSE out
    ELSE Ok(Generator(out))

glob_remote(pattern, str_cast, fault) ==
    LET parts == SplitPattern(pattern)
    IN IF Len(parts) # 2 THEN Result(Raise("PatternError"), <<>>)
       ELSE LET basepath == parts[1]
                subpattern == parts[2]
            IN IF is_remote_path(basepath)
               THEN LET out == PathyGlob(basepath, <<STAR>> \o subpattern, fault)
                    IN Result(CastPaths(out, str_cast),
                              <<Call("remote", "glob", basepath,
                                     [pattern |-> <<STAR>> \o subpattern],
                                     out)>>)
               ELSE LET out == Ok(OsGlob(pattern))
                    IN Result(out, <<Call("local", "glob", pattern, NoKw, out)>>)

----------------------------------------------------------------------------
\* State, calls and steps

NoArgs ==
    [path |-> <<>>, mode |-> "", buffering |-> -1, encoding |-> "None",
     newline |-> "None", closefd |-> TRUE, opener |-> "None",
     str_cast |-> TRUE, fault |-> "none", onMissing |-> "empty"]

NoWrote == [valid |-> FALSE, path |-> <<>>, mode |-> "", n |-> 0]

Stored == LocalFiles \cup RemoteObjs

\* The paths the environment creates and deletes, and the calls are made on.
EnvPaths == {D_AT, GS_AT}
MainPaths == {D, D_AT, X, GS_B, GS_AT, GS_X, HDFS_AT}

Init ==
    /\ local = [k \in LocalFiles |-> Absent]
    /\ remote = [k \in RemoteObjs |-> Absent]
    /\ handle = NoHandle
    /\ op = "none"
    /\ args = NoArgs
    /\ ret = NoRet
    /\ calls = <<>>
    /\ lastEvent = [k \in Stored |-> "none"]
    /\ wrote = NoWrote

\* A call returned: op, args, ret and calls hold the record of it until the
\* caller has taken the result (Consume); the caller makes one call at a time.
Returned(name, a, r) ==
    /\ op' = name
    /\ args' = a
    /\ ret' = r.ret
    /\ calls' = r.calls

Forgotten ==
    /\ op' = "none"
    /\ args' = NoArgs
    /\ ret' = NoRet
    /\ calls' = <<>>

Consume ==
    /\ op # "none"
    /\ Forgotten
    /\ UNCHANGED <<local, remote, handle, lastEvent, wrote>>

CallIsRemotePath(paths) ==
    \E p \in paths :
        /\ op = "none"
        /\ Returned("is_remote_path", [NoArgs EXCEPT !.path = p],
                    Result(Ok(is_remote_path(p)), <<>>))
        /\ UNCHANGED <<local, remote, handle, lastEvent, wrote>>

CallPathExists(paths) ==
    \E p \in paths, f \in Faults :
        /\ op = "none"
        /\ Returned("path_exists_remote",
                    [NoArgs EXCEPT !.path = p, !.fault = f],
                    path_exists_remote(p, f))
        /\ UNCHANGED <<local, remote, handle, lastEvent, wrote>>

CallIsdir(paths) ==
    \E p \in paths, f \in Faults :
        /\ op = "none"
        /\ Returned("isdir_remote",
                    [NoArgs EXCEPT !.path = p, !.fault = f],
                    isdir_remote(p, f))
        /\ UNCHANGED <<local, remote, handle, lastEvent, wrote>>

CallListdir(paths) ==
    \E p \in paths, f \in Faults, m \in {"empty", "raise"} :
        /\ op = "none"
        /\ Returned("listdir_remote",
                    [NoArgs EXCEPT !.path = p, !.fault = f, !.onMissing = m],
                    listdir_remote(p, f, m))
        /\ UNCHANGED <<local, remote, handle, lastEvent, wrote>>

CallStat(paths) ==
    \E p \in paths, f \in Faults :
        /\ op = "none"
        /\ Returned("stat_remote",
                    [NoArgs EXCEPT !.path = p, !.fault = f],
                    stat_remote(p, f))
        /\ UNCHANGED <<local, remote, handle, lastEvent, wrote>>

CallSize(paths) ==
    \E p \in paths, f \in Faults :
        /\ op = "none"
        /\ Returned("size_remote",
                    [NoArgs EXCEPT !.path = p, !.fault = f],
                    size_remote(p, f))
        /\ UNCHANGED <<local, remote, handle, lastEvent, wrote>>

CallGlob(patterns) ==
    \E p \in patterns, c \in BOOLEAN, f \in Faults :
        /\ op = "none"
        /\ Returned("glob_remote",
                    [NoArgs EXCEPT !.path = p, !.str_cast = c, !.fault = f],
                    glob_remote(p, c, f))
        /\ UNCHANGED <<local, remote, handle, lastEvent, wrote>>

\* open_remote, called while no file object of an earlier call is still open.
\* A local open in a write or append mode creates the file.
CallOpen(paths, modes, bufs, encs, nls, closefds, openers, faults) ==
    \E p \in paths, m \in modes, b \in bufs, e \in encs,
       n \in nls, c \in closefds, o \in openers, f \in faults :
        LET r == open_remote(p, m, b, e, n, c, o, f)
        IN /\ op = "none"
           /\ ~handle.open
           /\ Returned("open_remote",
                       [NoArgs EXCEPT !.path = p, !.mode = m, !.buffering = b,
                                      !.encoding = e, !.newline = n,
                                      !.closefd = c, !.opener = o, !.fault = f],
                       r)
           /\ handle' = r.handle
           /\ local' = r.local
           /\ remote' = r.remote
           /\ lastEvent' =
                IF r.ret.kind = "ok" /\ r.handle.backend = "local"
                   /\ m \notin ReadModes
                THEN [lastEvent EXCEPT ![p] = "created"]
                ELSE lastEvent
           /\ wrote' = NoWrote

\* file.write of k bytes on the open file object
Write ==
    \E k \in 1..MaxBytes :
        /\ handle.open
        /\ handle.mode \notin ReadModes
        /\ handle.base + handle.written + k <= MaxBytes
        /\ handle' = [handle EXCEPT !.written = @ + k]
        /\ Forgotten
        /\ UNCHANGED <<local, remote, lastEvent, wrote>>

\* file.flush on a local file object: what was written reaches the file.
Flush ==
    /\ handle.open
    /\ handle.backend = "local"
    /\ handle.mode \notin ReadModes
    /\ local' = [local EXCEPT ![handle.path] = handle.base + handle.written]
    /\ Forgotten
    /\ UNCHANGED <<remote, handle, lastEvent, wrote>>

\* file.close: a local file is flushed, a remote object is uploaded.
Close ==
    /\ handle.open
    /\ handle' = NoHandle
    /\ IF handle.mode \in ReadModes
       THEN UNCHANGED <<local, remote, lastEvent, wrote>>
       ELSE /\ wrote' = [valid |-> TRUE, path |-> handle.path,
                         mode |-> handle.mode, n |-> handle.written]
            /\ IF handle.backend = "local"
               THEN /\ local' = [local EXCEPT ![handle.path] =
                                    handle.base + handle.written]
                    /\ UNCHANGED <<remote, lastEvent>>
               ELSE /\ remote' = [remote EXCEPT ![handle.path] =
                                    handle.written]
                    /\ lastEvent' = [lastEvent EXCEPT ![handle.path] = "created"]
                    /\ UNCHANGED local
    /\ Forgotten

\* Another program creates a file or object of n bytes.  A path with a file
\* object open on it has that one writer only.
EnvCreate ==
    \E p \in EnvPaths, n \in Sizes :
        /\ ~(handle.open /\ handle.path = p)
        /\ IF p \in LocalFiles
           THEN local' = [local EXCEPT ![p] = n] /\ UNCHANGED remote
           ELSE remote' = [remote EXCEPT ![p] = n] /\ UNCHANGED local
        /\ lastEvent' = [lastEvent EXCEPT ![p] = "created"]
        /\ wrote' = NoWrote
        /\ Forgotten
        /\ UNCHANGED handle

\* Another program deletes a file or object.
EnvDelete ==
    \E p \in EnvPaths :
        /\ ~(handle.open /\ handle.path = p)
        /\ IF p \in LocalFiles
           THEN /\ local[p] # Absent
                /\ local' = [local EXCEPT ![p] = Absent]
                /\ UNCHANGED remote
           ELSE /\ remote[p] # Absent
                /\ remote' = [remote EXCEPT ![p] = Absent]
                /\ UNCHANGED local
        /\ lastEvent' = [lastEvent EXCEPT ![p] = "deleted"]
        /\ wrote' = NoWrote
        /\ Forgotten
        /\ UNCHANGED handle

MainPatterns == {D \o <<"/", STAR>>, GS_B \o <<"/", STAR>>, D_AT}
MainModes == {"r", "w", "w+", "a"}

Next ==
    \/ CallIsRemotePath(MainPaths)
    \/ CallPathExists(MainPaths)
    \/ CallIsdir(MainPaths)
    \/ CallListdir(MainPaths)
    \/ CallStat(MainPaths)
    \/ CallSize(MainPaths)
    \/ CallGlob(MainPatterns)
    \/ CallOpen({D_AT, GS_AT, X}, MainModes, {-1}, {"None"}, {"None"}, {TRUE},
                {"None"}, Faults)
    \/ Consume
    \/ Write
    \/ Flush
    \/ Close
    \/ EnvCreate
    \/ EnvDelete

Spec == Init /\ [][Next]_vars

----------------------------------------------------------------------------
\* Classification alone, over many strings

TailChars == {"a", "/", ":"}
SchemeLike ==
    PrefixesOf(GS) \cup PrefixesOf(HDFS)
    \cup {<<"x">> \o GS, <<"G", "S", ":", "/", "/">>, <<"g", "s", "/", "/">>,
          <<"h", "d", "f", ":", "/", "/">>, <<"s", "3", ":", "/", "/">>}
ClassifyInputs ==
    {pre \o t : pre \in SchemeLike, t \in SeqsUpTo(TailChars, MaxTail)}

NextClassify == CallIsRemotePath(ClassifyInputs) \/ Consume

SpecClassify == Init /\ [][NextClassify]_vars

----------------------------------------------------------------------------
\* Globbing over stores with any of the files and objects present

GlobPatterns ==
    {<<>>, D_AT, GS_AT, HDFS_AT,
     <<STAR>>, D \o <<"/", STAR>>, D \o <<"/", STAR, "t">>,
     D \o <<"/", "a", STAR>>, <<STAR, "/", STAR, "t">>,
     GS_B \o <<"/", STAR>>, GS_B \o <<"/", STAR, "t">>,
     GS_B \o <<"/", "a", STAR>>, GS_B \o <<"/", STAR, STAR>>,
     GS_B \o <<"/", STAR, "t", STAR>>, GS \o <<STAR, "/", "a", "t">>,
     HDFS \o <<"h", "/", STAR>>,
     <<"g", "s", STAR, ":", "/", "/", "b", "/", "a", "t">>,
     <<"g", "s", ":", "/", STAR, "/", "b">>}

InitQuery ==
    /\ local \in [LocalFiles -> {Absent, 0}]
    /\ remote \in [RemoteObjs -> {Absent, 0}]
    /\ handle = NoHandle
    /\ op = "none"
    /\ args = NoArgs
    /\ ret = NoRet
    /\ calls = <<>>
    /\ lastEvent = [k \in Stored |-> "none"]
    /\ wrote = NoWrote

NextQuery == CallGlob(GlobPatterns) \/ Consume

SpecQuery == InitQuery /\ [][NextQuery]_vars

----------------------------------------------------------------------------
\* open_remote alone, over its options

OpenBufferings == {-2, -1, 0, 1, 4096}

NextOpen ==
    \/ CallOpen({D_AT, GS_AT}, {"r", "rb", "w", "a"}, OpenBufferings,
                {"None", "utf-8"}, {"None", "lf"}, BOOLEAN, {"None", "opener"},
                {"none"})
    \/ Consume
    \/ Close

SpecOpen == Init /\ [][NextOpen]_vars

----------------------------------------------------------------------------
\* Claims

\* Where the first '*' of a pattern is; 0 when it has none.
FirstStar(p) ==
    IF \E i \in 1..Len(p) : p[i] = STAR
    THEN CHOOSE i \in 1..Len(p) :
            p[i] = STAR /\ \A j \in 1..(i - 1) : p[j] # STAR
    ELSE 0

\* A string that begins with one of the two remote scheme prefixes.
HasRemotePrefix(p) == \E q \in PrefixesOf(p) : q = GS \/ q = HDFS

\* C1: is_remote_path is total on strings, the empty string included: it
\* returns (never raises) True exactly when the string begins with "gs://" or
\* "hdfs://", and it calls neither backend.
C1_ClassifyIsPrefixTest ==
    op = "is_remote_path" =>
        /\ ret.kind = "ok"
        /\ ret.val = HasRemotePrefix(args.path)
        /\ calls = <<>>

C1_Witness ==
    /\ op = "is_remote_path"
    /\ args.path = HDFS \o <<"a", "/">>
    /\ ret.val = TRUE

\* C3: glob_remote on a pattern without any '*' raises PatternError (the
\* failed unpacking of the split), whether the pattern is local or remote,
\* without calling a backend and without returning a sequence.
C3_NoWildcardRaises ==
    (op = "glob_remote" /\ \A i \in 1..Len(args.path) : args.path[i] # STAR) =>
        /\ ret = Raise("PatternError")
        /\ calls = <<>>

C3_Witness ==
    /\ op = "glob_remote"
    /\ args.path = GS_AT
    /\ remote[GS_AT] # Absent
    /\ ret.kind = "raise"

\* The paths a glob result names, whichever form it comes in.
MatchedPaths(r) ==
    IF r.val.type = "list"
    THEN {r.val.items[i].chars : i \in 1..Len(r.val.items)}
    ELSE {Str(r.val.out.val[i]).chars : i \in 1..Len(r.val.out.val)}

\* C6: for a pattern whose part before the first '*' is remote, and while the
\* object store answers, glob_remote returns a list holding str(x) of every
\* match x when str_cast is true, and the backend's own iterator of Pathy
\* objects, untouched, when str_cast is false; both name the same paths.
C6_StrCastToggle ==
    (/\ op = "glob_remote"
     /\ FirstStar(args.path) # 0
     /\ HasRemotePrefix(SubSeq(args.path, 1, FirstStar(args.path) - 1))
     /\ args.fault = "none") =>
        /\ Len(calls) = 1
        /\ calls[1].out.kind = "ok"
        /\ ret.kind = "ok"
        /\ IF args.str_cast
           THEN /\ ret.val.type = "list"
                /\ Len(ret.val.items) = Len(calls[1].out.val)
                /\ \A i \in 1..Len(ret.val.items) :
                      /\ ret.val.items[i].type = "str"
                      /\ ret.val.items[i] = Str(calls[1].out.val[i])
           ELSE /\ ret.val.type = "generator"
                /\ ret.val.out = calls[1].out
                /\ \A i \in 1..Len(ret.val.out.val) :
                      ret.val.out.val[i].type = "Pathy"
        /\ MatchedPaths(ret)
             = MatchedPaths(glob_remote(args.path, ~args.str_cast, "none").ret)

C6_Witness ==
    /\ op = "glob_remote"
    /\ args.path = GS_B \o <<"/", STAR, "t">>
    /\ ~args.str_cast
    /\ args.fault = "none"
    /\ ret.kind = "ok"
    /\ ret.val.type = "generator"
    /\ Len(ret.val.out.val) = 2

\* C7: glob_remote splits at the first '*' only; the part before it chooses
\* the backend.  A remote base is globbed by the object store at the base
\* with '*' and the rest as the pattern; a local base is globbed by the OS
\* over the whole pattern.
C7_SplitAtFirstStar ==
    (op = "glob_remote" /\ FirstStar(args.path) # 0) =>
        LET i == FirstStar(args.path)
            base == SubSeq(args.path, 1, i - 1)
            sub == <<STAR>> \o SubSeq(args.path, i + 1, Len(args.path))
        IN /\ Len(calls) = 1
           /\ IF is_remote_path(base)
              THEN /\ calls[1].backend = "remote"
                   /\ calls[1].fn = "glob"
                   /\ calls[1].path = base
                   /\ calls[1].kw = [pattern |-> sub]
              ELSE /\ calls[1].backend = "local"
                   /\ calls[1].fn = "glob"
                   /\ calls[1].path = args.path
           /\ (~HasRemotePrefix(base) => calls[1].backend = "local")

C7_Witness ==
    /\ op = "glob_remote"
    /\ args.path = GS_B \o <<"/", STAR, "t", STAR>>
    /\ calls[1].backend = "remote"
    /\ calls[1].kw.pattern = <<STAR, "t", STAR>>

\* C8: open_remote hands the object store a buffer size of 8192 unless the
\* caller gave some other positive integer, which is then handed over, so the
\* size handed over is always positive; closefd and opener are not handed to
\* the object store; a local open gets all five options as given.
C8_RemoteBufferPositive ==
    op = "open_remote" =>
        /\ Len(calls) = 1
        /\ IF HasRemotePrefix(args.path)
           THEN /\ calls[1].backend = "remote"
                /\ calls[1].kw.buffering =
                      (IF args.buffering > 0 THEN args.buffering
                       ELSE DefaultBufferSize)
                /\ calls[1].kw.buffering > 0
                /\ DOMAIN calls[1].kw
                      = {"mode", "buffering", "encoding", "newline"}
           ELSE /\ calls[1].backend = "local"
                /\ calls[1].kw =
                      [mode |-> args.mode, buffering |-> args.buffering,
                       encoding |-> args.encoding, newline |-> args.newline,
                       closefd |-> args.closefd, opener |-> args.opener]

\* C2: after open_remote in a write mode ('w', 'wb', 'w+'), writes of n bytes
\* in all and close, size_remote of the same path returns n, on either
\* backend, whatever the file held before.
C2_SizeAfterWrite ==
    (/\ op = "size_remote"
     /\ wrote.valid
     /\ wrote.mode \in WriteModes
     /\ args.path = wrote.path
     /\ args.fault = "none") =>
        /\ ret.kind = "ok"
        /\ ret.val = wrote.n

C2_Witness ==
    /\ op = "size_remote"
    /\ wrote.valid
    /\ wrote.mode = "w"
    /\ wrote.path = GS_AT
    /\ args.path = GS_AT
    /\ wrote.n = 1
    /\ ret.kind = "ok"
    /\ ret.val = 1

\* Whether a path names nothing on the backend its prefix selects.
Missing(path) ==
    IF HasRemotePrefix(path)
    THEN ~(RemoteHas(path) \/ RemoteIsDir(path))
    ELSE ~OsPathExists(path)

C5_ExistsTracksStore ==
    (op = "path_exists_remote" /\ args.path \in Stored /\ args.fault = "none") =>
        /\ ret.kind = "ok"
        /\ Len(calls) = 1
        /\ calls[1].backend =
              (IF HasRemotePrefix(args.path) THEN "remote" ELSE "local")
        /\ lastEvent[args.path] = "created" => ret.val = TRUE
        /\ lastEvent[args.path] = "deleted" => ret.val = FALSE

C5_Witness ==
    /\ op = "path_exists_remote"
    /\ args.path = GS_AT
    /\ args.fault = "none"
    /\ lastEvent[GS_AT] = "deleted"
    /\ ret.val = FALSE

\* C9: stat_remote always asks the object-store client; for a file or object
\* that exists the size it reports is the one size_remote returns, and for a
\* path that does not exist both raise NotFoundError.
C9_StatAgreesWithSize ==
    (op = "stat_remote" /\ args.fault = "none") =>
        LET sz == size_remote(args.path, "none").ret
        IN /\ Len(calls) = 1
           /\ calls[1].backend = "remote"
           /\ (args.path \in Stored /\ ~Missing(args.path)) =>
                 /\ sz.kind = "ok"
                 /\ ret.kind = "ok"
                 /\ ret.val.size = sz.val
           /\ Missing(args.path) =>
                 /\ ret = Raise("NotFoundError")
                 /\ sz = Raise("NotFoundError")

QueryOps ==
    {"path_exists_remote", "isdir_remote", "listdir_remote", "stat_remote",
     "size_remote", "glob_remote"}

\* C10: a query call leaves both stores (and any open file object) as they
\* were, and each query other than stat_remote calls only the backend that
\* the prefix of its path selects.
C10_QueriesReadOnly ==
    /\ [][(op = "none" /\ op' \in QueryOps) =>
             /\ local' = local
             /\ remote' = remote
             /\ handle' = handle]_vars
    /\ [](op \in QueryOps \ {"stat_remote"} =>
             \A i \in 1..Len(calls) :
                calls[i].backend =
                   (IF HasRemotePrefix(args.path) THEN "remote" ELSE "local"))

C10_Witness ==
    /\ op = "isdir_remote"
    /\ args.path = GS_B
    /\ remote[GS_AT] # Absent
    /\ Len(calls) = 1
    /\ calls[1].backend = "remote"
    /\ ret.kind = "ok"
    /\ ret.val = TRUE

====
